---- MODULE Spec2Model ----
(***************************************************************************)
(* Payment / enrollment reconciliation of veterinary-sarathi.              *)
(*                                                                         *)
(* The database is one SQLite file (models.py:16-20).  Every model helper  *)
(* (Payment.create, Enrollment.create, Cart.add_item, ...) opens its own   *)
(* connection, writes and commits; payment_success additionally keeps a    *)
(* connection of its own on which its UPDATEs stay uncommitted until the   *)
(* final conn.commit().  Python's sqlite3 opens a transaction before every *)
(* INSERT / UPDATE / DELETE, and SQLite admits one writer per file: the    *)
(* connection holding the write lock is writeLock.  A writer of another    *)
(* request waits for the lock (busy timeout); a writer whose own request   *)
(* holds the lock can never get it and raises OperationalError.  The       *)
(* committed tables are enrollments, payments and cart; the uncommitted    *)
(* UPDATEs of a payment_success connection are in uncommitted.             *)
(***************************************************************************)
EXTENDS Integers, Sequences, FiniteSets, TLC

\* ---------------------------------------------------------------- bounds
MaxPayments == 2
MaxTxn == 2

\* ------------------------------------------------------------ the domain
Students == {"u1"}
Admins   == {"adm"}
Users    == Students \cup Admins
Courses  == {"c1", "c2"}
NoCourse == "c0"
CourseIds == Courses \cup {NoCourse}
Handlers == {"h1", "h2"}
Refs     == {91}
\* the (user_id, course_id) values of enrollments rows
EnrollmentPairs == Students \X Courses

\* courses.price
Price == [c \in Courses |-> IF c = "c1" THEN 500 ELSE 800]

\* ids of users rows: the admin of create_admin_user, a registered student
\* and the id the next registration gets
UserIds == Users \cup {"u2"}
Usernames == {"admin", "ram", "sita"}
Emails == {"admin@", "ram@", "sita@"}
Passwords == {"pw1", "pw2"}
\* no row under this id
NoUser == [username |-> "", email |-> "", password_hash |-> <<>>,
           is_admin |-> FALSE]

\* werkzeug generate_password_hash / check_password_hash: the hash matches
\* the password it was made from and no other
generate_password_hash(password) == <<"pbkdf2:sha256", password>>
check_password_hash(hash, password) ==
    hash = generate_password_hash(password)

\* the row User.create inserts
UserCreate(username, email, password, admin) ==
    [username |-> username, email |-> email,
     password_hash |-> generate_password_hash(password), is_admin |-> admin]

\* the users table after initialize_app and the registration of student u1
InitialUsers ==
    [u \in UserIds |->
        IF u \in Admins THEN UserCreate("admin", "admin@", "pw1", TRUE)
        ELSE IF u \in Students THEN UserCreate("ram", "ram@", "pw1", FALSE)
        ELSE NoUser]

\* a request parameter that is absent or empty
NoParam == 0
\* payment_success and payment_failure are open to every logged-in user and
\* never read current_user: they answer every caller alike
AnyUser == "any"
\* the lock of the database file is free
NoLock == "none"
\* the connection of a Payment.create call that raised
CreateConn == "Payment.create"

\* transaction_id is TEXT: a sequence of tokens joined by "_"; a generated
\* uuid is one token, f"{oid}_{refId}" appends the token refId to oid.
TxnTokens == 1 .. MaxTxn
OidInputs == {<<>>} \cup {<<t>> : t \in TxnTokens}
                    \cup {<<t, r>> : t \in TxnTokens, r \in Refs}
AmtInputs == {NoParam, 500}
RefInputs == {NoParam} \cup Refs
\* the choices of ContentUploadForm.content_type
ContentTypes == {"video", "pdf", "presentation"}
\* <int:progress> of the update-progress URL: the converter matches no sign
ProgressInputs == {0, 40, 100, 101, 250}

\* a role check that takes every user for a student
is_adminNever(u) == FALSE

VARIABLES
    enrollments,   \* committed rows of enrollments: how many rows each
                   \* <<user, course>> pair has
    payments,      \* committed rows of payments, by id
    cart,          \* committed rows of cart: per user, oldest first
    issued,        \* number of transaction ids generated so far
    writeLock,     \* the connection that holds the database write lock
    pc,            \* position of each payment_success request
    req,           \* parameters of each payment_success request
    rows,          \* ids of the rows its SELECT returned
    idx,           \* position of its loop in rows
    uncommitted,   \* ids of the rows its connection has updated
    created,       \* pairs for which its Enrollment.create calls returned
    replay,        \* its callback repeats the request that ended before it
    resp,          \* response of the request that finished last
    courses,       \* committed rows of courses: set of course ids
    content,       \* committed rows of content: course id and content type
    progress,      \* enrollments.progress of each (user, course) pair
    users          \* committed rows of users, by id

vars == <<enrollments, payments, cart, issued, writeLock, pc, req, rows, idx,
          uncommitted, created, replay, resp, courses, content, progress,
          users>>

dbvars == <<enrollments, payments, cart>>
\* the catalogue, the progress column and the accounts
catvars == <<courses, content, progress, users>>
hvars  == <<pc, req, rows, idx, uncommitted, created, replay>>

\* users.is_admin of the row of current_user
is_admin(u) == users[u].is_admin

\* ------------------------------------------------------ helper operators
RECURSIVE SeqSum(_)
SeqSum(s) == IF s = <<>> THEN 0 ELSE Head(s) + SeqSum(Tail(s))

RECURSIVE Reverse(_)
Reverse(s) == IF s = <<>> THEN <<>> ELSE Append(Reverse(Tail(s)), Head(s))

RECURSIVE Without(_, _)
Without(s, c) ==
    IF s = <<>> THEN <<>>
    ELSE IF Head(s) = c THEN Without(Tail(s), c)
    ELSE <<Head(s)>> \o Without(Tail(s), c)

InSeq(s, c) == \E i \in 1 .. Len(s) : s[i] = c

\* what a request answers: the handler, how it ended and, for a checkout
\* that reaches the gateway form, the total amount in its fields amt and tAmt
Response(op, u, outcome, amt) ==
    [op |-> op, user |-> u, outcome |-> outcome, amt |-> amt]

\* the response of a payment_success request that found pending rows: the
\* unhandled exception ("error") or the redirect after the commit
Ended(request, outcome) ==
    [op |-> "success", user |-> AnyUser, outcome |-> outcome, amt |-> 0,
     request |-> request]

NoRequest == [oid |-> <<>>, amt |-> NoParam, refId |-> NoParam]

\* an enrollment check that takes every user for enrolled
is_enrolledAlways(u, c) == TRUE

\* an enrollment check that never finds the row
is_enrolledNever(u, c) == FALSE

\* Enrollment.is_enrolled
is_enrolled(u, c) ==
    <<u, c>> \in EnrollmentPairs /\ enrollments[<<u, c>>] > 0

\* Course.get_by_id: the row of the course, or None
get_by_id(c) == IF c \in courses THEN c ELSE NoCourse

\* cart c JOIN courses co ON c.course_id = co.id: the cart rows of the user
\* whose course row exists
RECURSIVE JoinCourses(_)
JoinCourses(s) ==
    IF s = <<>> THEN <<>>
    ELSE (IF Head(s) \in courses THEN <<Head(s)>> ELSE <<>>)
             \o JoinCourses(Tail(s))

\* Cart.get_items: ORDER BY added_at DESC
get_items(u) == Reverse(JoinCourses(cart[u]))

\* Cart.get_cart_total: SUM(co.price) over the cart rows of the user
get_cart_total(u) ==
    LET joined == JoinCourses(cart[u])
    IN  SeqSum([i \in 1 .. Len(joined) |-> Price[joined[i]]])

\* Payment.get_total_revenue: SUM(amount) WHERE status = 'success'
get_total_revenue ==
    SeqSum([i \in 1 .. Len(payments) |->
              IF payments[i].status = "success" THEN payments[i].amount ELSE 0])

\* payments.transaction_id TEXT UNIQUE: the value is carried by a row other
\* than row self of the table
TxnInUse(table, tid, self) ==
    \E i \in 1 .. Len(table) : i # self /\ table[i].transaction_id = tid

\* a Payment.create on a table without UNIQUE(transaction_id)
PaymentCreateUnchecked(table, u, c, amount, tid, status) ==
    [raised |-> FALSE,
     table |-> Append(table, [user_id |-> u, course_id |-> c,
                              amount |-> amount, transaction_id |-> tid,
                              status |-> status])]

\* a Payment.create that keeps only the new row
PaymentCreateReplacing(table, u, c, amount, tid, status) ==
    [raised |-> FALSE,
     table |-> <<[user_id |-> u, course_id |-> c, amount |-> amount,
                  transaction_id |-> tid, status |-> status]>>]

\* Payment.create: INSERT and commit; IntegrityError when the UNIQUE
\* constraint on transaction_id refuses the row
PaymentCreate(table, u, c, amount, tid, status) ==
    IF TxnInUse(table, tid, 0)
    THEN [raised |-> TRUE, table |-> table]
    ELSE [raised |-> FALSE,
          table |-> Append(table, [user_id |-> u, course_id |-> c,
                                   amount |-> amount, transaction_id |-> tid,
                                   status |-> status])]

\* the for loop of initiate_cart_payment: a Payment.create for every cart
\* course the user is not enrolled in; an exception ends the loop
RECURSIVE CartLoop(_, _, _, _)
CartLoop(items, table, u, tid) ==
    IF items = <<>> THEN [raised |-> FALSE, table |-> table]
    ELSE IF is_enrolled(u, Head(items))
         THEN CartLoop(Tail(items), table, u, tid)
         ELSE LET r == PaymentCreate(table, u, Head(items),
                                     Price[Head(items)], tid, "pending")
              IN  IF r.raised THEN r
                  ELSE CartLoop(Tail(items), r.table, u, tid)

\* ------------------------------------------------------------------ Init
\* init_db on a new database file: every table empty, and the courses the
\* admin has published since
Init ==
    /\ enrollments = [e \in EnrollmentPairs |-> 0]
    /\ payments = <<>>
    /\ cart = [u \in Users |-> <<>>]
    /\ issued = 0
    /\ writeLock = NoLock
    /\ pc = [h \in Handlers |-> "idle"]
    /\ req = [h \in Handlers |-> NoRequest]
    /\ rows = [h \in Handlers |-> <<>>]
    /\ idx = [h \in Handlers |-> 0]
    /\ uncommitted = [h \in Handlers |-> {}]
    /\ created = [h \in Handlers |-> {}]
    /\ replay = [h \in Handlers |-> FALSE]
    /\ resp = Response("none", AnyUser, "none", 0)
    /\ courses = Courses
    /\ content = {}
    /\ progress = [e \in EnrollmentPairs |-> 0]
    /\ users = InitialUsers

\* init_db creates each table only IF NOT EXISTS: the application starts on
\* the rows its database file already holds.  Every database here satisfies
\* the constraints of the schema; the payments table is empty or holds one
\* row of an enrolled student's earlier checkout.
CartOrders == {<<>>, <<"c1">>, <<"c2">>, <<"c1", "c2">>, <<"c2", "c1">>}

ExistingPayments ==
    {<<>>} \cup
    {<<[user_id |-> u, course_id |-> c, amount |-> Price[c],
        transaction_id |-> <<1, r>>, status |-> "success"]>> :
        u \in Students, c \in Courses, r \in Refs}

InitExisting ==
    /\ enrollments \in [EnrollmentPairs -> {0, 1}]
    /\ payments \in ExistingPayments
    /\ \A i \in 1 .. Len(payments) :
           is_enrolled(payments[i].user_id, payments[i].course_id)
    /\ cart \in [Users -> CartOrders]
    /\ \A u \in Admins : cart[u] = <<>>
    /\ issued = Len(payments)
    /\ writeLock = NoLock
    /\ pc = [h \in Handlers |-> "idle"]
    /\ req = [h \in Handlers |-> NoRequest]
    /\ rows = [h \in Handlers |-> <<>>]
    /\ idx = [h \in Handlers |-> 0]
    /\ uncommitted = [h \in Handlers |-> {}]
    /\ created = [h \in Handlers |-> {}]
    /\ replay = [h \in Handlers |-> FALSE]
    /\ resp = Response("none", AnyUser, "none", 0)
    /\ courses = Courses
    /\ content = {}
    /\ progress = [e \in EnrollmentPairs |-> 0]
    /\ users = InitialUsers

\* --------------------------------------------------------------- actions
\* student.add_to_cart
AddToCart(u, c) ==
    /\ IF is_admin(u)
       THEN /\ resp' = Response("add_to_cart", u, "admin", 0)
            /\ UNCHANGED cart
       ELSE IF get_by_id(c) = NoCourse
       THEN /\ resp' = Response("add_to_cart", u, "not_found", 0)
            /\ UNCHANGED cart
       ELSE IF is_enrolled(u, c)
       THEN /\ resp' = Response("add_to_cart", u, "enrolled", 0)
            /\ UNCHANGED cart
       ELSE /\ writeLock = NoLock
            /\ IF InSeq(cart[u], c)
               THEN /\ resp' = Response("add_to_cart", u, "in_cart", 0)
                    /\ UNCHANGED cart
               ELSE /\ resp' = Response("add_to_cart", u, "added", 0)
                    /\ cart' = [cart EXCEPT ![u] = Append(@, c)]
    /\ UNCHANGED <<enrollments, payments, issued, writeLock, hvars, catvars>>

\* student.remove_from_cart
RemoveFromCart(u, c) ==
    /\ IF is_admin(u)
       THEN /\ resp' = Response("remove_from_cart", u, "admin", 0)
            /\ UNCHANGED cart
       ELSE /\ writeLock = NoLock
            /\ resp' = Response("remove_from_cart", u, "removed", 0)
            /\ cart' = [cart EXCEPT ![u] = Without(@, c)]
    /\ UNCHANGED <<enrollments, payments, issued, writeLock, hvars, catvars>>

\* payment.initiate_payment
InitiatePayment(u, c) ==
    /\ IF is_admin(u)
       THEN /\ resp' = Response("initiate", u, "admin", 0)
            /\ UNCHANGED <<payments, issued>>
       ELSE IF get_by_id(c) = NoCourse
       THEN /\ resp' = Response("initiate", u, "not_found", 0)
            /\ UNCHANGED <<payments, issued>>
       ELSE IF is_enrolled(u, c)
       THEN /\ resp' = Response("initiate", u, "enrolled", 0)
            /\ UNCHANGED <<payments, issued>>
       ELSE /\ writeLock = NoLock
            /\ issued < MaxTxn
            /\ Len(payments) < MaxPayments
            /\ issued' = issued + 1
            /\ payments' = PaymentCreate(payments, u, c, Price[c],
                                         <<issued + 1>>, "pending").table
            /\ resp' = Response("initiate", u, "gateway", Price[c])
    /\ UNCHANGED <<enrollments, cart, writeLock, hvars, catvars>>

\* payment.initiate_cart_payment
InitiateCartPayment(u) ==
    IF is_admin(u)
    THEN /\ resp' = Response("initiate_cart", u, "admin", 0)
         /\ UNCHANGED <<dbvars, issued, writeLock, hvars, catvars>>
    ELSE IF get_items(u) = <<>>
    THEN /\ resp' = Response("initiate_cart", u, "cart_empty", 0)
         /\ UNCHANGED <<dbvars, issued, writeLock, hvars, catvars>>
    ELSE LET total_amount == get_cart_total(u)
             transaction_id == <<issued + 1>>
             r == CartLoop(get_items(u), payments, u, transaction_id)
         IN  /\ r.table # payments => writeLock = NoLock
             /\ r.raised => writeLock = NoLock
             /\ issued < MaxTxn
             /\ Len(r.table) <= MaxPayments
             /\ issued' = issued + 1
             /\ payments' = r.table
             /\ IF r.raised
                THEN /\ writeLock' = CreateConn
                     /\ resp' = Response("initiate_cart", u, "error", 0)
                ELSE /\ UNCHANGED writeLock
                     /\ resp' = Response("initiate_cart", u, "gateway",
                                         total_amount)
             /\ UNCHANGED <<enrollments, cart, hvars, catvars>>

\* a database that admits every write at once, whoever holds the lock
WriteOutcomeUnlocked(lock, own) == "ok"

\* get_db_connection: sqlite3.connect with the default isolation level and
\* busy timeout.  What a write statement meets when the database write lock
\* is held by connection lock: a connection of another request finishes or
\* is reclaimed, so the statement waits; the connection of the writer's own
\* request (own) is never released while the writer waits, so the statement
\* times out with OperationalError.
WriteOutcome(lock, own) ==
    IF lock = NoLock THEN "ok"
    ELSE IF lock = own THEN "locked"
    ELSE "wait"

\* verify_esewa_signature: every required key is in params
verify_esewa_signature(params) ==
    \A p \in {"oid", "amt", "refId"} : p \in DOMAIN params

\* a parameter check that lets every request through
MissingParamsNever(oid, amt, refId) == FALSE

\* not oid or not amt or not refId
MissingParams(oid, amt, refId) ==
    oid = <<>> \/ amt = NoParam \/ refId = NoParam

\* a SELECT by transaction_id alone, whatever the status
SelectAnyStatus(table, oid, i) ==
    SelectSeq([k \in 1 .. Len(table) |-> k],
              LAMBDA k : k >= i /\ table[k].transaction_id = oid)

\* SELECT * FROM payments WHERE transaction_id = ? AND status = 'pending'
RECURSIVE SelectPending(_, _, _)
SelectPending(table, oid, i) ==
    IF i > Len(table) THEN <<>>
    ELSE (IF table[i].transaction_id = oid /\ table[i].status = "pending"
          THEN <<i>> ELSE <<>>) \o SelectPending(table, oid, i + 1)

\* f"{oid}_{refId}"
SuffixedId(oid, refId) == Append(oid, refId)

\* the payments table as the connection of request h sees it: the committed
\* rows with its own uncommitted UPDATEs applied
View(h) ==
    [i \in 1 .. Len(payments) |->
        IF i \in uncommitted[h]
        THEN [payments[i] EXCEPT !.status = "success",
                  !.transaction_id = SuffixedId(req[h].oid, req[h].refId)]
        ELSE payments[i]]

\* an INSERT into a table that has no UNIQUE(user_id, course_id)
EnrollmentCreateUnchecked(table, u, c) ==
    [inserted |-> TRUE, table |-> [table EXCEPT ![<<u, c>>] = @ + 1],
     progress |-> [progress EXCEPT ![<<u, c>>] = 0]]

\* Enrollment.create: INSERT and commit, progress at its DEFAULT 0.0; the
\* IntegrityError of UNIQUE(user_id, course_id) is caught and nothing is
\* inserted
EnrollmentCreate(table, u, c) ==
    IF table[<<u, c>>] > 0
    THEN [inserted |-> FALSE, table |-> table, progress |-> progress]
    ELSE [inserted |-> TRUE, table |-> [table EXCEPT ![<<u, c>>] = @ + 1],
          progress |-> [progress EXCEPT ![<<u, c>>] = 0]]

\* payment.payment_success, lines 138-173: parameters, verification and the
\* SELECT of the pending rows
SuccessStart(h, oid, amt, refId) ==
    /\ pc[h] = "idle"
    /\ IF MissingParams(oid, amt, refId)
       THEN /\ resp' = Response("success", AnyUser, "invalid", 0)
            /\ UNCHANGED hvars
       ELSE IF ~verify_esewa_signature([oid |-> oid, amt |-> amt,
                                        refId |-> refId])
       THEN /\ resp' = Response("success", AnyUser, "unverified", 0)
            /\ UNCHANGED hvars
       ELSE IF SelectPending(payments, oid, 1) = <<>>
       THEN /\ resp' = Response("success", AnyUser, "already_processed", 0)
            /\ UNCHANGED hvars
       ELSE /\ pc' = [pc EXCEPT ![h] = "update"]
            /\ req' = [req EXCEPT ![h] = [oid |-> oid, amt |-> amt,
                                          refId |-> refId]]
            /\ rows' = [rows EXCEPT ![h] = SelectPending(payments, oid, 1)]
            /\ idx' = [idx EXCEPT ![h] = 1]
            /\ uncommitted' = [uncommitted EXCEPT ![h] = {}]
            /\ created' = [created EXCEPT ![h] = {}]
            /\ replay' = [replay EXCEPT ![h] =
                   resp = Ended([oid |-> oid, amt |-> amt, refId |-> refId],
                                resp.outcome)]
            /\ UNCHANGED resp
    /\ UNCHANGED <<dbvars, issued, writeLock, catvars>>

\* the request of h ends with an unhandled exception; its connection is
\* neither committed nor closed
Raise(h) ==
    /\ pc' = [pc EXCEPT ![h] = "raised"]
    /\ resp' = Ended(req[h], "error")

\* payment.payment_success, lines 176-193: one statement of the loop over
\* the selected rows, or the final commit
SuccessStep(h) ==
    LET payment == payments[rows[h][idx[h]]]
        newId == SuffixedId(req[h].oid, req[h].refId)
    IN
    CASE pc[h] = "update" ->
           \* UPDATE payments SET status, transaction_id WHERE id = ?
           /\ WriteOutcome(writeLock, h) # "wait"
           /\ writeLock' = h
           /\ IF TxnInUse(View(h), newId, rows[h][idx[h]])
              THEN /\ Raise(h)
                   /\ UNCHANGED uncommitted
              ELSE /\ uncommitted' = [uncommitted EXCEPT
                                        ![h] = @ \cup {rows[h][idx[h]]}]
                   /\ pc' = [pc EXCEPT ![h] = "enroll"]
                   /\ UNCHANGED resp
           /\ UNCHANGED <<dbvars, issued, req, rows, idx, created, replay,
                          catvars>>
      [] pc[h] = "enroll" ->
           \* Enrollment.create(payment['user_id'], payment['course_id'])
           /\ WriteOutcome(writeLock, h) # "wait"
           /\ IF WriteOutcome(writeLock, h) = "locked"
              THEN /\ Raise(h)
                   /\ UNCHANGED <<enrollments, created, progress>>
              ELSE LET r == EnrollmentCreate(enrollments, payment.user_id,
                                             payment.course_id)
                   IN  /\ enrollments' = r.table
                       /\ progress' = r.progress
                       /\ created' = [created EXCEPT ![h] =
                              @ \cup {<<payment.user_id,
                                        payment.course_id>>}]
                       /\ pc' = [pc EXCEPT ![h] = "uncart"]
                       /\ UNCHANGED resp
           /\ UNCHANGED <<payments, cart, issued, writeLock, req, rows, idx,
                          uncommitted, replay, courses, content, users>>
      [] pc[h] = "uncart" ->
           \* Cart.remove_item(payment['user_id'], payment['course_id'])
           /\ WriteOutcome(writeLock, h) # "wait"
           /\ IF WriteOutcome(writeLock, h) = "locked"
              THEN /\ Raise(h)
                   /\ UNCHANGED <<cart, idx>>
              ELSE /\ cart' = [cart EXCEPT ![payment.user_id] =
                                  Without(@, payment.course_id)]
                   /\ IF idx[h] < Len(rows[h])
                      THEN /\ idx' = [idx EXCEPT ![h] = @ + 1]
                           /\ pc' = [pc EXCEPT ![h] = "update"]
                      ELSE /\ pc' = [pc EXCEPT ![h] = "commit"]
                           /\ UNCHANGED idx
                   /\ UNCHANGED resp
           /\ UNCHANGED <<enrollments, payments, issued, writeLock, req,
                          rows, uncommitted, created, replay, catvars>>
      [] pc[h] = "commit" ->
           \* conn.commit(); conn.close()
           /\ payments' = View(h)
           /\ uncommitted' = [uncommitted EXCEPT ![h] = {}]
           /\ writeLock' = IF writeLock = h THEN NoLock ELSE writeLock
           /\ pc' = [pc EXCEPT ![h] = "done"]
           /\ resp' = Ended(req[h], "enrolled")
           /\ UNCHANGED <<enrollments, cart, issued, req, rows, idx, created,
                          replay, catvars>>
      [] OTHER -> FALSE

\* the connection object of a finished payment_success request is
\* reclaimed: what it left uncommitted is rolled back and its lock released
ReclaimRequest(h) ==
    /\ pc[h] \in {"raised", "done"}
    /\ pc' = [pc EXCEPT ![h] = "idle"]
    /\ req' = [req EXCEPT ![h] = NoRequest]
    /\ rows' = [rows EXCEPT ![h] = <<>>]
    /\ idx' = [idx EXCEPT ![h] = 0]
    /\ uncommitted' = [uncommitted EXCEPT ![h] = {}]
    /\ created' = [created EXCEPT ![h] = {}]
    /\ replay' = [replay EXCEPT ![h] = FALSE]
    /\ writeLock' = IF writeLock = h THEN NoLock ELSE writeLock
    /\ UNCHANGED <<dbvars, issued, resp, catvars>>

\* the connection of a Payment.create call that raised is reclaimed
ReclaimCreate ==
    /\ writeLock = CreateConn
    /\ writeLock' = NoLock
    /\ UNCHANGED <<dbvars, issued, hvars, resp, catvars>>

\* flask_login.login_required: the request comes from a logged-in user, one
\* with a row in users
login_required(u) == users[u] # NoUser

\* a failure callback that answers and updates nothing
PaymentFailureIdle(pid) ==
    /\ resp' = Response("failure", AnyUser, "failed", 0)
    /\ UNCHANGED <<dbvars, issued, writeLock, hvars, catvars>>

\* payment.payment_failure
PaymentFailure(pid) ==
    /\ IF pid = <<>>
       THEN UNCHANGED payments
       ELSE /\ writeLock = NoLock
            /\ payments' = [i \in 1 .. Len(payments) |->
                   IF payments[i].transaction_id = pid
                   THEN [payments[i] EXCEPT !.status = "failed"]
                   ELSE payments[i]]
    /\ resp' = Response("failure", AnyUser, "failed", 0)
    /\ UNCHANGED <<enrollments, cart, issued, writeLock, hvars, catvars>>

\* what a catalogue or progress request answers: the handler, how it ended,
\* the course and the progress value of its URL, and the progress it reports
Answer(op, u, outcome, c, input, stored) ==
    [op |-> op, user |-> u, outcome |-> outcome, amt |-> stored,
     course |-> c, input |-> input]

\* admin.delete_course: Course.delete runs DELETE FROM courses on a
\* connection that never sets PRAGMA foreign_keys, so SQLite enforces no
\* foreign key and cascades nothing
DeleteCourse(u, c) ==
    /\ IF ~is_admin(u)
       THEN /\ resp' = Answer("delete_course", u, "forbidden", c, 0, 0)
            /\ UNCHANGED courses
       ELSE IF get_by_id(c) = NoCourse
       THEN /\ resp' = Answer("delete_course", u, "not_found", c, 0, 0)
            /\ UNCHANGED courses
       ELSE /\ writeLock = NoLock
            /\ courses' = courses \ {c}
            /\ resp' = Answer("delete_course", u, "deleted", c, 0, 0)
    /\ UNCHANGED <<dbvars, issued, writeLock, hvars, content, progress,
                   users>>

\* the row Content.create inserts
ContentCreate(c, t) == [course_id |-> c, content_type |-> t]

\* Content.get_by_course
get_by_course(c) == {r \in content : r.course_id = c}

\* admin.upload_content: the form accepts only the id of an existing course
\* and one of its three content types
UploadContent(u, c, t) ==
    /\ IF ~is_admin(u)
       THEN /\ resp' = Answer("upload_content", u, "forbidden", c, 0, 0)
            /\ UNCHANGED content
       ELSE IF courses = {}
       THEN /\ resp' = Answer("upload_content", u, "no_courses", c, 0, 0)
            /\ UNCHANGED content
       ELSE IF c \notin courses
       THEN /\ resp' = Answer("upload_content", u, "invalid", c, 0, 0)
            /\ UNCHANGED content
       ELSE /\ writeLock = NoLock
            /\ content' = content \cup {ContentCreate(c, t)}
            /\ resp' = Answer("upload_content", u, "uploaded", c, 0, 0)
    /\ UNCHANGED <<dbvars, issued, writeLock, hvars, courses, progress,
                   users>>

\* what watch_course or download_content answers: how it ended, the course
\* and the content rows it served
Served(op, u, outcome, c, rows_served) ==
    [op |-> op, user |-> u, outcome |-> outcome, amt |-> 0, course |-> c,
     served |-> rows_served]

\* student.watch_course
WatchCourse(u, c) ==
    /\ login_required(u)
    /\ resp' =
          IF is_admin(u) THEN Served("watch", u, "admin", c, {})
          ELSE IF ~is_enrolled(u, c)
          THEN Served("watch", u, "not_enrolled", c, {})
          ELSE IF get_by_id(c) = NoCourse
          THEN Served("watch", u, "not_found", c, {})
          ELSE Served("watch", u, "served", c, get_by_course(c))
    /\ UNCHANGED <<dbvars, issued, writeLock, hvars, catvars>>

\* content['content_type'] in ['pdf', 'presentation']
downloadable(t) == t \in {"pdf", "presentation"}

\* student.download_content for the content row r of the URL's id; exists
\* says whether the row's file is in the upload folder
DownloadContent(u, r, exists) ==
    /\ login_required(u)
    /\ resp' =
          IF is_admin(u) THEN Served("download", u, "admin", r.course_id, {})
          ELSE IF r \notin content
          THEN Served("download", u, "not_found", r.course_id, {})
          ELSE IF ~is_enrolled(u, r.course_id)
          THEN Served("download", u, "not_enrolled", r.course_id, {})
          ELSE IF ~downloadable(r.content_type)
          THEN Served("download", u, "not_downloadable", r.course_id, {})
          ELSE IF ~exists
          THEN Served("download", u, "file_missing", r.course_id, {})
          ELSE Served("download", u, "served", r.course_id, {r})
    /\ UNCHANGED <<dbvars, issued, writeLock, hvars, catvars>>

\* a progress stored as it arrives
clampNone(p) == p

\* max(0, min(100, progress))
clamp(p) ==
    LET least == IF 100 < p THEN 100 ELSE p
    IN  IF 0 > least THEN 0 ELSE least

\* student.update_progress; Enrollment.update_progress
UpdateProgress(u, c, p) ==
    /\ IF is_admin(u)
       THEN /\ resp' = Answer("update_progress", u, "admin", c, p, 0)
            /\ UNCHANGED progress
       ELSE IF ~is_enrolled(u, c)
       THEN /\ resp' = Answer("update_progress", u, "not_enrolled", c, p, 0)
            /\ UNCHANGED progress
       ELSE /\ writeLock = NoLock
            /\ progress' = [progress EXCEPT ![<<u, c>>] = clamp(p)]
            /\ resp' = Answer("update_progress", u, "ok", c, p, clamp(p))
    /\ UNCHANGED <<dbvars, issued, writeLock, hvars, courses, content,
                   users>>

\* a call of Enrollment.create(user_id, course_id) while no connection
\* holds the write lock; it returns the id of the new row, or None
EnrollmentCreateCall(u, c) ==
    /\ writeLock = NoLock
    /\ LET r == EnrollmentCreate(enrollments, u, c)
       IN  /\ enrollments' = r.table
           /\ progress' = r.progress
           /\ resp' = Answer("Enrollment.create", u,
                             IF r.inserted THEN "row_id" ELSE "None", c, 0, 0)
    /\ UNCHANGED <<payments, cart, issued, writeLock, hvars, courses,
                   content, users>>

\* User.get_by_email / User.get_by_username: the ids of the rows found
get_by_email(email) == {u \in UserIds : users[u].email = email}
get_by_username(username) == {u \in UserIds : users[u].username = username}

\* auth.register by an anonymous visitor: an address or a name already in
\* the table is turned away, otherwise User.create inserts a row under the
\* next id with is_admin at its default
Register(username, email, password) ==
    /\ \E id \in UserIds : users[id] = NoUser
    /\ LET id == CHOOSE id \in UserIds : users[id] = NoUser IN
       IF get_by_email(email) # {}
       THEN /\ resp' = Response("register", id, "email_taken", 0)
            /\ UNCHANGED users
       ELSE IF get_by_username(username) # {}
       THEN /\ resp' = Response("register", id, "username_taken", 0)
            /\ UNCHANGED users
       ELSE /\ users' = [users EXCEPT
                            ![id] = UserCreate(username, email, password, FALSE)]
            /\ resp' = Response("register", id, "created", 0)
    /\ UNCHANGED <<dbvars, issued, writeLock, hvars, courses, content,
                   progress>>

\* auth.login: reads the row of the address and redirects by its role
Login(email, password) ==
    /\ resp' =
          IF \E u \in get_by_email(email) :
                check_password_hash(users[u].password_hash, password)
          THEN LET u == CHOOSE u \in get_by_email(email) : TRUE IN
               Response("login", u, IF users[u].is_admin THEN "admin"
                                    ELSE "student", 0)
          ELSE Response("login", AnyUser, "invalid", 0)
    /\ UNCHANGED <<dbvars, issued, writeLock, hvars, catvars>>

\* the row after UPDATE users SET username = ?, email = ?
ProfileRowDemoted(row, username, email) ==
    [row EXCEPT !.username = username, !.email = email, !.is_admin = FALSE]

ProfileRow(row, username, email) ==
    [row EXCEPT !.username = username, !.email = email]

\* auth.profile, the update_profile form of logged-in user u
UpdateProfile(u, username, email) ==
    /\ users[u] # NoUser
    /\ IF get_by_username(username) \ {u} # {}
       THEN /\ resp' = Response("profile", u, "username_taken", 0)
            /\ UNCHANGED users
       ELSE IF get_by_email(email) \ {u} # {}
       THEN /\ resp' = Response("profile", u, "email_taken", 0)
            /\ UNCHANGED users
       ELSE /\ users' = [users EXCEPT
                            ![u] = ProfileRow(users[u], username, email)]
            /\ resp' = Response("profile", u, "updated", 0)
    /\ UNCHANGED <<dbvars, issued, writeLock, hvars, courses, content,
                   progress>>

\* auth.profile, the change_password form of logged-in user u
ChangePassword(u, current, new) ==
    /\ users[u] # NoUser
    /\ IF ~check_password_hash(users[u].password_hash, current)
       THEN /\ resp' = Response("password", u, "incorrect", 0)
            /\ UNCHANGED users
       ELSE /\ users' = [users EXCEPT
                            ![u].password_hash = generate_password_hash(new)]
            /\ resp' = Response("password", u, "changed", 0)
    /\ UNCHANGED <<dbvars, issued, writeLock, hvars, courses, content,
                   progress>>

Next ==
    \/ \E u \in Users, c \in CourseIds : AddToCart(u, c)
    \/ \E u \in Users, c \in CourseIds : RemoveFromCart(u, c)
    \/ \E u \in Users, c \in CourseIds : InitiatePayment(u, c)
    \/ \E u \in Users : InitiateCartPayment(u)
    \/ \E h \in Handlers, oid \in OidInputs, amt \in AmtInputs,
          refId \in RefInputs : SuccessStart(h, oid, amt, refId)
    \/ \E h \in Handlers : SuccessStep(h)
    \/ \E h \in Handlers : ReclaimRequest(h)
    \/ ReclaimCreate
    \/ \E pid \in OidInputs : PaymentFailure(pid)

\* the application on a new database
Spec == Init /\ [][Next]_vars

\* the application on a database that already holds rows
SpecExisting == InitExisting /\ [][Next]_vars

\* the catalogue requests of the admin
NextCatalogue ==
    \/ \E u \in Users, c \in CourseIds : DeleteCourse(u, c)
    \/ \E u \in Users, c \in CourseIds, t \in ContentTypes :
          UploadContent(u, c, t)

\* the catalogue requests on a new database
SpecCatalogue == Init /\ [][NextCatalogue]_vars

\* the enrollments table under calls of Enrollment.create and under the
\* progress requests of the students
NextEnrollment ==
    \/ \E u \in Students, c \in Courses : EnrollmentCreateCall(u, c)
    \/ \E u \in Users, c \in CourseIds, p \in ProgressInputs :
          UpdateProgress(u, c, p)

SpecEnrollment == InitExisting /\ [][NextEnrollment]_vars

\* the content requests on a database that holds Enrollment rows
ContentRows == [course_id : Courses, content_type : ContentTypes]

NextContent ==
    \/ \E u \in Users, c \in CourseIds, t \in ContentTypes :
          UploadContent(u, c, t)
    \/ \E u \in Users, c \in CourseIds : WatchCourse(u, c)
    \/ \E u \in Users, r \in ContentRows, exists \in BOOLEAN :
          DownloadContent(u, r, exists)

SpecContent == InitExisting /\ [][NextContent]_vars

\* the account routes of the auth blueprint
NextAccounts ==
    \/ \E n \in Usernames, e \in Emails, p \in Passwords : Register(n, e, p)
    \/ \E e \in Emails, p \in Passwords : Login(e, p)
    \/ \E u \in UserIds, n \in Usernames, e \in Emails :
          UpdateProfile(u, n, e)
    \/ \E u \in UserIds, p \in Passwords, q \in Passwords :
          ChangePassword(u, p, q)

SpecAccounts == Init /\ [][NextAccounts]_vars

\* ---------------------------------------------------------------- claims
RowPair(i) == <<payments[i].user_id, payments[i].course_id>>

\* the pair has an Enrollment row
Enrolled(e) == enrollments[e] > 0

\* the rows of payments that carry transaction id tid
RowsOf(tid) == {i \in 1 .. Len(payments) : payments[i].transaction_id = tid}

\* the transaction id of the checkout that was initiated last
LastTxn == <<issued>>

RECURSIVE SetSum(_)
SetSum(S) ==
    IF S = {} THEN 0
    ELSE LET i == CHOOSE j \in S : TRUE
         IN  payments[i].amount + SetSum(S \ {i})

\* C1: once a success callback that carried all three parameters and found
\* N >= 1 pending rows has ended, each of the N (user, course) pairs has its
\* Enrollment row and no row of that transaction id is pending.
C1_SuccessEnrollsAll ==
    \A h \in Handlers :
        pc[h] \in {"raised", "done"} =>
            /\ \A k \in 1 .. Len(rows[h]) : Enrolled(RowPair(rows[h][k]))
            /\ SelectPending(payments, req[h].oid, 1) = <<>>

\* C2: the status updates and the Enrollment creations of a success callback
\* are committed together or not at all: in no state of the database is an
\* Enrollment committed without the success of its Payment, a Payment
\* success without its Enrollment, or one selected row of a callback done
\* and another not.
C2_CommitTogether ==
    /\ \A e \in EnrollmentPairs :
          Enrolled(e) =>
              \E i \in 1 .. Len(payments) :
                  RowPair(i) = e /\ payments[i].status = "success"
    /\ \A i \in 1 .. Len(payments) :
          payments[i].status = "success" => Enrolled(RowPair(i))
    /\ \A h \in Handlers : \A j, k \in 1 .. Len(rows[h]) :
          /\ (payments[rows[h][j]].status = "success")
                = (payments[rows[h][k]].status = "success")
          /\ Enrolled(RowPair(rows[h][j])) = Enrolled(RowPair(rows[h][k]))

\* a success callback has stopped part-way: after its UPDATE, uncommitted
C2_StoppedPartWay ==
    \E h \in Handlers : pc[h] = "raised" /\ uncommitted[h] # {}

C4_ReplayIsNoOp ==
    [][\A h \in Handlers :
          (replay[h] /\ pc'[h] # pc[h]) =>
              /\ enrollments' = enrollments
              /\ payments' = payments
              /\ get_total_revenue' = get_total_revenue
              /\ pc'[h] # "raised"]_vars

\* C5: two success callbacks in flight that both observed the same row
\* pending never both have an Enrollment.create call for that row return
\* (so they never both insert an Enrollment for it).
C5_NoDoubleEnroll ==
    \A g, h \in Handlers :
        g # h =>
            \A j \in 1 .. Len(rows[g]), k \in 1 .. Len(rows[h]) :
                rows[g][j] = rows[h][k] =>
                    ~ /\ RowPair(rows[g][j]) \in created[g]
                      /\ RowPair(rows[h][k]) \in created[h]

\* two callbacks observed the same row pending; one has run its UPDATE and
\* its Enrollment.create, the other is about to run its UPDATE
C5_BothObservedPending ==
    \E g, h \in Handlers :
        /\ g # h
        /\ pc[g] = "raised" /\ uncommitted[g] # {}
        /\ pc[h] = "update"
        /\ rows[g] = rows[h]

\* the amount of the callback of h differs from the amount stored on a row
\* it selected
Tampered(h) ==
    \E k \in 1 .. Len(rows[h]) : payments[rows[h][k]].amount # req[h].amt

\* C7: a success callback whose amount differs from the stored amount is
\* rejected: it updates no Payment row and creates no Enrollment.
C7_TamperedRejected ==
    \A h \in Handlers :
        Tampered(h) => uncommitted[h] = {} /\ created[h] = {}

\* C8: a cart checkout of a student whose cart holds k >= 2 courses, none
\* enrolled, persists k pending rows under one fresh transaction id, each
\* with the price of its course, and hands the sum of the prices to the
\* gateway.
C8_CartCheckoutRows ==
    \A u \in Students :
        ( /\ resp.op = "initiate_cart" /\ resp.user = u
          /\ Len(cart[u]) >= 2
          /\ \A k \in 1 .. Len(cart[u]) : ~Enrolled(<<u, cart[u][k]>>) )
        =>
        /\ resp.outcome = "gateway"
        /\ resp.amt = SeqSum([k \in 1 .. Len(cart[u]) |-> Price[cart[u][k]]])
        /\ Cardinality(RowsOf(LastTxn)) = Len(cart[u])
        /\ \A k \in 1 .. Len(cart[u]) :
              \E i \in RowsOf(LastTxn) :
                  /\ RowPair(i) = <<u, cart[u][k]>>
                  /\ payments[i].amount = Price[cart[u][k]]
                  /\ payments[i].status = "pending"

C10_SkipEnrolled ==
    \A u \in Students :
        ( /\ resp.op = "initiate_cart" /\ resp.user = u
          /\ resp.outcome \notin {"admin", "cart_empty"} )
        =>
        /\ \A i \in RowsOf(LastTxn) :
              /\ payments[i].user_id = u
              /\ InSeq(cart[u], payments[i].course_id)
              /\ ~Enrolled(RowPair(i))
        /\ \A a, b \in Courses :
              ( /\ cart[u] \in {<<a, b>>, <<b, a>>}
                /\ Enrolled(<<u, a>>)
                /\ ~Enrolled(<<u, b>>) )
              =>
              /\ resp.outcome = "gateway"
              /\ \E i \in RowsOf(LastTxn) :
                    /\ RowsOf(LastTxn) = {i}
                    /\ RowPair(i) = <<u, b>>
                    /\ payments[i].amount = Price[b]
                    /\ payments[i].status = "pending"

\* a checkout of a cart that holds an enrolled course and another one has
\* reached the gateway
C10_EnrolledAndOther ==
    \E u \in Students : \E a, b \in Courses :
        /\ resp.op = "initiate_cart" /\ resp.user = u
        /\ resp.outcome = "gateway"
        /\ cart[u] \in {<<a, b>>, <<b, a>>}
        /\ Enrolled(<<u, a>>)
        /\ ~Enrolled(<<u, b>>)

\* C11: a failure callback with transaction id T sets every Payment row
\* whose transaction id is T to failed, leaves every other Payment row as it
\* was, creates no Enrollment row and removes nothing from any cart.
C11_FailureMarksRows ==
    [][\A pid \in OidInputs :
          (pid # <<>> /\ PaymentFailure(pid)) =>
              /\ Len(payments') = Len(payments)
              /\ \A i \in 1 .. Len(payments) :
                    payments'[i] =
                        IF payments[i].transaction_id = pid
                        THEN [payments[i] EXCEPT !.status = "failed"]
                        ELSE payments[i]
              /\ enrollments' = enrollments
              /\ cart' = cart]_vars

\* a failure callback has answered, a row is failed and the student still
\* has a course in the cart
C11_FailedWithCart ==
    /\ resp.op = "failure"
    /\ \E i \in 1 .. Len(payments) : payments[i].status = "failed"
    /\ \E u \in Students : cart[u] # <<>>

\* C12: a success callback that lacks (or has empty) any of transaction id,
\* amount or reference id is rejected as invalid and leaves every Payment,
\* Enrollment and Cart row, and every connection, as it was.
C12_MissingRejected ==
    [][\A h \in Handlers, oid \in OidInputs, amt \in AmtInputs,
          refId \in RefInputs :
          ( /\ oid = <<>> \/ amt = NoParam \/ refId = NoParam
            /\ SuccessStart(h, oid, amt, refId) )
          =>
          /\ resp'.op = "success" /\ resp'.outcome = "invalid"
          /\ UNCHANGED <<dbvars, writeLock, hvars>>]_vars

\* a success callback was rejected as invalid while a row is pending
C12_InvalidWhilePending ==
    /\ resp.op = "success" /\ resp.outcome = "invalid"
    /\ \E i \in 1 .. Len(payments) : payments[i].status = "pending"

\* C13: a success callback that carries its three parameters and whose
\* transaction id matches no pending Payment row (unknown id, succeeded or
\* failed transaction) changes no Payment, Enrollment or Cart row and ends
\* with the "already processed" notice, not with an error.
C13_NoPendingIsNoOp ==
    [][\A h \in Handlers, oid \in OidInputs, amt \in AmtInputs,
          refId \in RefInputs :
          ( /\ oid # <<>> /\ amt # NoParam /\ refId # NoParam
            /\ ~\E i \in 1 .. Len(payments) :
                   /\ payments[i].transaction_id = oid
                   /\ payments[i].status = "pending"
            /\ SuccessStart(h, oid, amt, refId) )
          =>
          /\ resp'.op = "success" /\ resp'.outcome = "already_processed"
          /\ UNCHANGED <<dbvars, writeLock, hvars>>]_vars

\* a success callback has ended as already processed on a database that
\* holds a succeeded and a failed row
C13_AlreadyProcessed ==
    /\ resp.op = "success" /\ resp.outcome = "already_processed"
    /\ \E i \in 1 .. Len(payments) : payments[i].status = "success"
    /\ \E i \in 1 .. Len(payments) : payments[i].status = "failed"

\* C15: a (user, course) pair never has more than one Enrollment row, and an
\* Enrollment.create call for a pair that has its row inserts nothing,
\* leaves the row (its progress included) as it is and returns without an
\* error.
C15_OneEnrollmentPerPair ==
    /\ [](\A e \in EnrollmentPairs : enrollments[e] <= 1)
    /\ [][\A u \in Students, c \in Courses :
             (Enrolled(<<u, c>>) /\ EnrollmentCreateCall(u, c)) =>
                 /\ enrollments' = enrollments
                 /\ progress' = progress
                 /\ resp'.outcome = "None"]_vars

\* Enrollment.create has returned None for a pair whose row has a progress
C15_CreatedTwice ==
    /\ resp.op = "Enrollment.create" /\ resp.outcome = "None"
    /\ Enrolled(<<resp.user, resp.course>>)
    /\ progress[<<resp.user, resp.course>>] > 0

\* C16: once a success callback has ended, none of the (user, course) pairs
\* of the rows it selected is in the cart.
C16_CartCleared ==
    \A h \in Handlers :
        pc[h] \in {"raised", "done"} =>
            \A k \in 1 .. Len(rows[h]) :
                ~InSeq(cart[payments[rows[h][k]].user_id],
                       payments[rows[h][k]].course_id)

\* C17: after delete_course has deleted course c, no Content row and no
\* Enrollment row with course_id = c remains.
C17_DeleteCascades ==
    (resp.op = "delete_course" /\ resp.outcome = "deleted") =>
        /\ get_by_course(resp.course) = {}
        /\ \A u \in Students : ~Enrolled(<<u, resp.course>>)

\* C18: the progress of every Enrollment is within 0 .. 100: a new
\* Enrollment starts at 0, and an accepted progress update stores, and
\* reports, 0 for an input below 0, 100 for an input above 100 and the input
\* itself in between.
C18_ProgressClamped ==
    /\ \A e \in EnrollmentPairs : progress[e] >= 0 /\ progress[e] <= 100
    /\ (resp.op = "Enrollment.create" /\ resp.outcome = "row_id") =>
           progress[<<resp.user, resp.course>>] = 0
    /\ (resp.op = "update_progress" /\ resp.outcome = "ok") =>
           LET expected == IF resp.input < 0 THEN 0
                           ELSE IF resp.input > 100 THEN 100
                           ELSE resp.input
           IN  /\ progress[<<resp.user, resp.course>>] = expected
               /\ resp.amt = expected

\* a progress update with an input above 100 has been accepted
C18_UpdatedAboveRange ==
    /\ resp.op = "update_progress" /\ resp.outcome = "ok"
    /\ resp.input > 100
    /\ progress[<<resp.user, resp.course>>] = 100

\* C19: no step deletes a Payment row or changes its user, course or
\* amount, and a checkout (single course or cart) leaves every earlier row
\* exactly as it was and puts its new rows under a transaction id that no
\* earlier row carries.
C19_PaymentsKept ==
    [][/\ Len(payments') >= Len(payments)
       /\ \A i \in 1 .. Len(payments) :
             /\ payments'[i].user_id = payments[i].user_id
             /\ payments'[i].course_id = payments[i].course_id
             /\ payments'[i].amount = payments[i].amount
       /\ ( \/ \E u \in Users, c \in CourseIds : InitiatePayment(u, c)
            \/ \E u \in Users : InitiateCartPayment(u) )
          =>
          /\ \A i \in 1 .. Len(payments) : payments'[i] = payments[i]
          /\ \A j \in (Len(payments) + 1) .. Len(payments') :
                ~TxnInUse(payments, payments'[j].transaction_id, 0)]_vars

\* a student has checked out a course again after the payment failed: the
\* failed row and the new pending row are both in the table
C19_FailedThenAgain ==
    \E i, j \in 1 .. Len(payments) :
        /\ i < j
        /\ RowPair(i) = RowPair(j)
        /\ payments[i].status = "failed"
        /\ payments[j].status = "pending"
        /\ resp.op = "initiate" /\ resp.outcome = "gateway"

\* C20: initiate_payment persists exactly one new Payment row, pending,
\* with the price of the course and a transaction id no existing row
\* carries, when the caller is not an admin, the course exists and the
\* caller is not enrolled in it; in every other case it persists no row.
C20_InitiateOneRow ==
    [][\A u \in Users, c \in CourseIds :
          InitiatePayment(u, c) =>
              IF u \in Students /\ c \in courses /\ ~Enrolled(<<u, c>>)
              THEN /\ Len(payments') = Len(payments) + 1
                   /\ SubSeq(payments', 1, Len(payments)) = payments
                   /\ LET row == payments'[Len(payments')]
                      IN  /\ row.user_id = u /\ row.course_id = c
                          /\ row.status = "pending"
                          /\ row.amount = Price[c]
                          /\ ~TxnInUse(payments, row.transaction_id, 0)
              ELSE payments' = payments]_vars

\* a single-course checkout of a student who is enrolled in the other
\* course has added a row to a table that already held one
C20_InitiatedBesideEnrolled ==
    /\ resp.op = "initiate" /\ resp.outcome = "gateway"
    /\ Len(payments) = 2
    /\ payments[2].status = "pending"
    /\ \E c \in Courses : Enrolled(<<resp.user, c>>)

\* C21: a user's admin flag never changes once the row exists: no step of
\* register, login, profile update or password change alters is_admin of
\* an existing row, and a row that registration creates is not an admin.
C21_AdminFlagFixed ==
    [][\A u \in UserIds :
          IF users[u] # NoUser
          THEN users'[u] # NoUser /\ users'[u].is_admin = users[u].is_admin
          ELSE users'[u] # NoUser => ~users'[u].is_admin]_vars

\* the admin has a new name, address and password, the student too
C21_AdminRenamed ==
    /\ users["adm"].is_admin
    /\ users["adm"].username # "admin"
    /\ users["adm"].email # "admin@"
    /\ users["adm"].password_hash = generate_password_hash("pw2")
    /\ users["u2"] # NoUser

\* C22: when a success callback with transaction id T and reference R has
\* processed pending rows and ended, each of those rows carries the
\* identifier T followed by R, so none carries the bare T.
C22_SuffixStored ==
    \A h \in Handlers :
        pc[h] \in {"raised", "done"} =>
            \A k \in 1 .. Len(rows[h]) :
                payments[rows[h][k]].transaction_id =
                    SuffixedId(req[h].oid, req[h].refId)

\* C23: a success callback that found pending rows never issues a write on
\* a new connection (Enrollment.create, Cart.remove_item) while its own
\* connection still holds the database write lock.
C23_NoSelfLock ==
    \A h \in Handlers :
        pc[h] \in {"enroll", "uncart"} => writeLock # h

\* no two rows of the table carry the same transaction identifier
UniqueTxn(table) ==
    \A i, j \in 1 .. Len(table) :
        table[i].transaction_id = table[j].transaction_id => i = j

\* C24: no two Payment rows ever carry the same stored transaction
\* identifier, committed or as a request's connection sees them; and the
\* insert of a cart checkout that would reuse an identifier fails and adds
\* nothing: the table keeps the rows it had and the one inserted before.
C24_UniqueTransactionId ==
    /\ [](UniqueTxn(payments) /\ \A h \in Handlers : UniqueTxn(View(h)))
    /\ [][\A u \in Users :
            (InitiateCartPayment(u) /\ resp'.outcome = "error") =>
                /\ Len(payments') = Len(payments) + 1
                /\ SubSeq(payments', 1, Len(payments)) = payments]_vars

\* a cart checkout of two courses has raised at its second insert
C24_SecondInsertRefused ==
    /\ resp.op = "initiate_cart"
    /\ resp.outcome = "error"
    /\ Len(payments) = 1
    /\ Len(cart[payments[1].user_id]) = 2

\* C25: a failure callback made by logged-in user x changes only Payment
\* rows that belong to x.  payment_failure never reads current_user, so
\* each of its steps is a step of every logged-in caller.
C25_OwnRowsOnly ==
    [][\A x \in Users, pid \in OidInputs :
          (login_required(x) /\ PaymentFailure(pid)) =>
              \A i \in 1 .. Len(payments) :
                  payments'[i] # payments[i] => payments[i].user_id = x]_vars

\* first half of C26: a success callback for a transaction id whose row a
\* failure callback has marked failed starts no processing and changes no
\* Payment, Enrollment or Cart row
C26_FailedStaysFailed ==
    [][\A h \in Handlers, oid \in OidInputs, amt \in AmtInputs,
         refId \in RefInputs :
          (/\ SuccessStart(h, oid, amt, refId)
           /\ \E i \in 1 .. Len(payments) :
                  /\ payments[i].transaction_id = oid
                  /\ payments[i].status = "failed") =>
              /\ pc' = pc
              /\ dbvars' = dbvars]_vars

\* second half of C26: when the last request answered was a success
\* callback that processed the rows of transaction id T, a failure
\* callback carrying T changes no row
C26_SuccessThenFailure ==
    [][\A pid \in OidInputs :
          (/\ PaymentFailure(pid)
           /\ pid # <<>>
           /\ \E amt \in AmtInputs, refId \in RefInputs,
                 outcome \in {"error", "enrolled"} :
                  resp = Ended([oid |-> pid, amt |-> amt, refId |-> refId],
                               outcome)) =>
              payments' = payments]_vars

\* C26: once a failure callback has marked a transaction's rows failed no
\* later success callback for the id creates an Enrollment or changes the
\* rows, and once a success callback has processed a transaction a later
\* failure callback with the original id changes no row.
C26_OutcomeSettled == C26_FailedStaysFailed /\ C26_SuccessThenFailure

\* C29: watch_course and download_content serve content only to a caller
\* who, at the time of the request, is not an admin and has an Enrollment
\* row for the course of every row served, all of them rows of the content
\* table; download_content serves only rows of type pdf or presentation.
C29_ServedToEnrolled ==
    [][(resp' # resp /\ resp'.op \in {"watch", "download"}
                    /\ resp'.outcome = "served") =>
          /\ ~users[resp'.user].is_admin
          /\ resp'.served \subseteq content
          /\ \A r \in resp'.served :
                /\ Enrolled(<<resp'.user, r.course_id>>)
                /\ resp'.op = "download" =>
                       r.content_type \in {"pdf", "presentation"}]_vars

\* a file was sent to an enrolled student whose course also has a video
C29_FileSent ==
    /\ resp.op = "download"
    /\ resp.outcome = "served"
    /\ \E r \in get_by_course(resp.course) : r.content_type = "video"

====
